---- MODULE Spec2Model ----
(***************************************************************************)
(* Model of the book store of vue-3-urql-example: the GraphQL server       *)
(* (Context, App, Book, Query, Mutation, server.ts), the requests it       *)
(* answers, and the two components of the front end: the form of           *)
(* Mutation.vue and the template of Query.vue.                             *)
(*                                                                         *)
(* Objects are modelled with JavaScript's reference semantics: a Book is a *)
(* reference (an index of heap) to the details object its constructor was  *)
(* given, and ctx.books is an array of such references.                    *)
(***************************************************************************)
EXTENDS Integers, Sequences, FiniteSets, TLC

\* ------------------------------------------------------------------ bounds
\* Largest number of books the store holds in a checked run.
MaxBooks == 3

\* Largest number of HTTP requests sent to the server in a checked run.
MaxReqs == 3

\* Largest number of clicks of Add Book in a checked run.
MaxClicks == 2

\* The field values the requests are drawn from.  They include the seed's own
\* fields (a duplicate of a stored book) and zero, negative and far-future
\* years.
Titles == {"My book", "New title"}
Authors == {"Lachlan", "Ursula"}
Years == {-1, 0, 1990, 9999}

\* BookDetails: {title: string, author: string, year: number}
BookDetails == [title : Titles, author : Authors, year : Years]

\* No Book (the value of retBook before any addBook returned).
NoBook == 0

\* ------------------------------------------------------------------- state
VARIABLES
    heap,      \* heap[b]: the details object held by Book b (Book.details)
    context,   \* the ServerContext instance: [books |-> array of Book refs]
    added,     \* history: the inputs of the addBook calls, in call order
    lastOp,    \* the operation that ran last
    arg,       \* the argument of the last addBook call
    retBook,   \* the Book the last addBook call returned
    retList,   \* the array the last read returned, as it was when returned
    reqs,      \* the HTTP requests sent to /graphql, in the order of sending
    form,      \* Mutation.vue: the refs title, author and year
    dirty,     \* history: the fields typed into while a mutation was pending
    view       \* Query.vue: the refs fetching, data and error of useQuery

\* The state of the store and of the last call made on it.
storeVars == <<heap, context, added, lastOp, arg, retBook, retList>>

\* The state of the two components of the front end.
clientVars == <<form, dirty, view>>

\* The state outside the store.
netVars == <<reqs, form, dirty, view>>

vars ==
    <<heap, context, added, lastOp, arg, retBook, retList, reqs, form, dirty,
      view>>

\* ------------------------------------------------------------ Book (class)
\* A constructor that copies the fields in the wrong order.
NewBook_swapped(h, details) ==
    Append(h, [title |-> details.author, author |-> details.title,
               year |-> details.year])

\* A Book class that keeps its details in one slot shared by every instance.
NewBook_shared(h, details) == [i \in 1..(Len(h) + 1) |-> details]

\* new Book(details): the Book keeps the details object it was given.
NewBook(h, details) == Append(h, details)

Book_title(b) == heap[b].title
Book_author(b) == heap[b].author
Book_year(b) == heap[b].year

\* The three fields of a Book as the getters read them.
BookFields(b) ==
    [title |-> Book_title(b), author |-> Book_author(b), year |-> Book_year(b)]

\* The fields of the books of an array, in the array's order.
FieldsOf(arr) == [i \in 1..Len(arr) |-> BookFields(arr[i])]

\* ------------------------------------------------------- Context and App
\* Context.app = new App(this): the App keeps a reference to its context.
Context_app(ctx) == [ctx |-> ctx]

\* get books() { return this.ctx.books }
App_books(app) == app.ctx.books

\* unshift instead of push.
Push_unshift(arr, b) == <<b>> \o arr

\* Overwriting the last slot instead of growing the array.
Push_overwrite(arr, b) == [arr EXCEPT ![Len(arr)] = b]

\* Pushing the book twice.
Push_twice(arr, b) == arr \o <<b, b>>

\* this.ctx.books.push(book)
Push(arr, b) == Append(arr, b)

\* ------------------------------------------------------------------- Query
\* app(_, ctx) { return ctx.app }
Query_app(ctx) == Context_app(ctx)

\* books(_, ctx) { return ctx.app.books }
Query_books(ctx) == App_books(Context_app(ctx))


\* ----------------------------------------------------- values of the refs
\* A value of the year ref: null, a number, or the string of the field.
Null == [kind |-> "null", n |-> 0, s |-> <<>>]
Num(n) == [kind |-> "num", n |-> n, s |-> <<>>]
Str(s) == [kind |-> "str", n |-> 0, s |-> s]

\* title = ref(''), author = ref(''), year = ref<number | null>(null); the
\* same values are assigned after the mutation.
BlankForm == [title |-> "", author |-> "", year |-> Null]

\* data and error of useQuery before any result.
NoData == [defined |-> FALSE, books |-> <<>>]
NoError == "undefined"

\* What the user types into the three fields.  The year field is given as
\* its characters: empty, "0" and "-1".
FormTitles == {"", "New title"}
FormAuthors == {"", "Lachlan"}
YearTexts == {<<>>, <<"0">>, <<"-", "1">>}

\* ------------------------------------------------------------------ server
\* The seed of the first, schema-string version of the server.
SeedDetails_first == [title |-> "Some title", author |-> "Lachlan", year |-> 1980]

\* books = [new Book({ title: "My book", author: "Lachlan", year: 1990 })]
SeedDetails == [title |-> "My book", author |-> "Lachlan", year |-> 1990]

Init ==
    /\ heap = NewBook(<<>>, SeedDetails)
    /\ context = [books |-> <<1>>]
    /\ added = <<>>
    /\ lastOp = "init"
    /\ arg = SeedDetails
    /\ retBook = NoBook
    /\ retList = <<>>
    /\ reqs = <<>>
    /\ form = BlankForm
    /\ dirty = {}
    /\ view = [fetching |-> TRUE, data |-> NoData, error |-> NoError]

\* ---------------------------------------------------------------- actions
\* An addBook that rejects a book whose fields are already stored.
App_addBook_unique(details) ==
    /\ \A b \in DOMAIN heap : heap[b] # details
    /\ Len(context.books) < MaxBooks
    /\ LET book == Len(heap) + 1
       IN /\ heap' = NewBook(heap, details)
          /\ context' = [context EXCEPT !.books = Push(@, book)]
          /\ retBook' = book
    /\ added' = Append(added, details)
    /\ arg' = details
    /\ UNCHANGED retList

\* App.addBook(details), called on context.app:
\*   const book = new Book(details); this.ctx.books.push(book); return book
App_addBook(details) ==
    /\ Len(context.books) < MaxBooks
    /\ LET book == Len(heap) + 1
       IN /\ heap' = NewBook(heap, details)
          /\ context' = [context EXCEPT !.books = Push(@, book)]
          /\ retBook' = book
    /\ added' = Append(added, details)
    /\ arg' = details
    /\ UNCHANGED retList

\* A direct call of context.app.addBook(details).
AppAddBook(details) ==
    /\ App_addBook(details)
    /\ lastOp' = "App.addBook"
    /\ UNCHANGED netVars

\* A resolver that builds the Book itself and never reaches the store.
MutationAddBook_noForward(input) ==
    /\ Len(context.books) < MaxBooks
    /\ heap' = NewBook(heap, input)
    /\ retBook' = Len(heap) + 1
    /\ added' = Append(added, input)
    /\ arg' = input
    /\ lastOp' = "Mutation.addBook"
    /\ UNCHANGED <<context, retList>>
    /\ UNCHANGED netVars

\* Mutation.addBook: async resolve(root, args, ctx) {
\*   return ctx.app.addBook(args.input) }
MutationAddBook(input) ==
    /\ App_addBook(input)
    /\ lastOp' = "Mutation.addBook"
    /\ UNCHANGED netVars

Reverse(arr) == [i \in 1..Len(arr) |-> arr[Len(arr) + 1 - i]]

\* A getter that returns this.ctx.books.reverse(), which reverses in place.
AppBooks_reversing ==
    /\ context' = [context EXCEPT !.books = Reverse(@)]
    /\ retList' = Reverse(context.books)
    /\ lastOp' = "App.books"
    /\ UNCHANGED <<heap, added, arg, retBook>>
    /\ UNCHANGED netVars

\* Reading context.app.books.
AppBooks ==
    /\ retList' = App_books(Context_app(context))
    /\ lastOp' = "App.books"
    /\ UNCHANGED <<heap, context, added, arg, retBook>>
    /\ UNCHANGED netVars

\* Resolving Query.books.
QueryBooks ==
    /\ retList' = Query_books(context)
    /\ lastOp' = "Query.books"
    /\ UNCHANGED <<heap, context, added, arg, retBook>>
    /\ UNCHANGED netVars

\* Resolving Query.app and then the books field of the App it returned.
QueryAppBooks ==
    /\ retList' = App_books(Query_app(context))
    /\ lastOp' = "Query.app.books"
    /\ UNCHANGED <<heap, context, added, arg, retBook>>
    /\ UNCHANGED netVars

Next ==
    \/ \E d \in BookDetails : AppAddBook(d)
    \/ \E d \in BookDetails : MutationAddBook(d)
    \/ AppBooks
    \/ QueryBooks
    \/ QueryAppBooks

Spec == Init /\ [][Next]_vars

\* ------------------------------------------------- requests to /graphql
\* The inputs of the addBook requests: a new book, a copy of the seed and a
\* book with a negative year.
ReqInputs ==
    { [title |-> "New title", author |-> "Lachlan", year |-> 1990],
      SeedDetails,
      [title |-> "New title", author |-> "Ursula", year |-> -1] }

\* A request: its operation, how far the server is with it (sent, resolved,
\* completed, done), the input of an addBook, the Book its resolver returned,
\* the data of its response, and (history) how many addBook calls had
\* returned when it was sent.
Request(kind, input, seen) ==
    [kind |-> kind, st |-> "sent", input |-> input, book |-> NoBook,
     res |-> <<>>, seen |-> seen]

\* A client sends the GetBooks query: app { books { title author year } }.
SendQuery ==
    /\ Len(reqs) < MaxReqs
    /\ reqs' = Append(reqs, Request("query", SeedDetails, Len(added)))
    /\ UNCHANGED storeVars
    /\ UNCHANGED clientVars

\* A client sends the AddBook mutation with the given input.
SendMutation(input) ==
    /\ Len(reqs) < MaxReqs
    /\ reqs' = Append(reqs, Request("mutation", input, Len(added)))
    /\ UNCHANGED storeVars
    /\ UNCHANGED clientVars

\* An options callback that builds a new ServerContext for every request.
Options_context_fresh(c) == [books |-> <<1>>]

\* graphqlHTTP(() => { return { schema, graphiql: true, context } }): every
\* request is given the one context built when the module was loaded.
Options_context(c) == c

\* The server executes a query request: Query.app, App.books and the getters
\* of every Book are synchronous, so the data are read in one step.
ResolveQuery(r) ==
    /\ reqs[r].kind = "query"
    /\ reqs[r].st = "sent"
    /\ LET ctx == Options_context(context)
           books == App_books(Query_app(ctx))
       IN /\ retList' = books
          /\ reqs' = [reqs EXCEPT ![r].st = "resolved",
                                  ![r].res = [i \in 1..Len(books) |->
                                                 BookFields(books[i])]]
    /\ lastOp' = "Query.app.books"
    /\ UNCHANGED <<heap, context, added, arg, retBook>>
    /\ UNCHANGED clientVars

\* A resolver that writes back the array as it was when the request was sent,
\* extended by its own book.
ResolveMutation_stale(r) ==
    /\ reqs[r].kind = "mutation"
    /\ reqs[r].st = "sent"
    /\ Len(context.books) < MaxBooks
    /\ LET book == Len(heap) + 1
       IN /\ heap' = NewBook(heap, reqs[r].input)
          /\ context' = [context EXCEPT
                 !.books = Push(SubSeq(@, 1, 1 + reqs[r].seen), book)]
          /\ retBook' = book
          /\ reqs' = [reqs EXCEPT ![r].st = "resolved", ![r].book = book]
    /\ added' = Append(added, reqs[r].input)
    /\ arg' = reqs[r].input
    /\ lastOp' = "Mutation.addBook"
    /\ UNCHANGED retList
    /\ UNCHANGED clientVars

\* The server calls the resolver of a mutation request: the body of the async
\* function runs to its return in one step, and the Book it returns settles
\* the promise.
ResolveMutation(r) ==
    /\ reqs[r].kind = "mutation"
    /\ reqs[r].st = "sent"
    /\ App_addBook(reqs[r].input)
    /\ lastOp' = "Mutation.addBook"
    /\ reqs' = [reqs EXCEPT ![r].st = "resolved", ![r].book = retBook']
    /\ UNCHANGED clientVars

\* The promise of the resolver is settled in a later turn: the selected
\* fields of the returned Book are read through its getters.
CompleteMutation(r) ==
    /\ reqs[r].kind = "mutation"
    /\ reqs[r].st = "resolved"
    /\ reqs' = [reqs EXCEPT ![r].st = "completed",
                            ![r].res = <<BookFields(reqs[r].book)>>]
    /\ UNCHANGED storeVars
    /\ UNCHANGED clientVars

\* The response of a request reaches the client.
Respond(r) ==
    /\ \/ reqs[r].kind = "query" /\ reqs[r].st = "resolved"
       \/ reqs[r].kind = "mutation" /\ reqs[r].st = "completed"
    /\ reqs' = [reqs EXCEPT ![r].st = "done"]
    /\ UNCHANGED storeVars
    /\ UNCHANGED clientVars

ServerNext ==
    \/ SendQuery
    \/ \E d \in ReqInputs : SendMutation(d)
    \/ \E r \in DOMAIN reqs : ResolveQuery(r)
    \/ \E r \in DOMAIN reqs : ResolveMutation(r)
    \/ \E r \in DOMAIN reqs : CompleteMutation(r)
    \/ \E r \in DOMAIN reqs : Respond(r)

\* The server under requests in flight, resolved in any order.
SpecServer == Init /\ [][ServerNext]_vars

\* ------------------------------------------------------------ Mutation.vue
\* JavaScript's truthiness of a value of the year ref.
Truthy(v) ==
    CASE v.kind = "null" -> FALSE
      [] v.kind = "num" -> v.n # 0
      [] v.kind = "str" -> Len(v.s) > 0

\* a || b
Or(a, b) == IF Truthy(a) THEN a ELSE b

DigitChars == <<"0", "1", "2", "3", "4", "5", "6", "7", "8", "9">>
IsDigit(c) == \E i \in 1..10 : DigitChars[i] = c
DigitVal(c) == (CHOOSE i \in 1..10 : DigitChars[i] = c) - 1

\* The number of digits a text starts with.
RECURSIVE LeadingDigits(_)
LeadingDigits(t) ==
    IF t # <<>> /\ IsDigit(Head(t)) THEN 1 + LeadingDigits(Tail(t)) ELSE 0

\* The value of the first k characters of a text, all digits.
RECURSIVE DigitsValue(_, _)
DigitsValue(t, k) ==
    IF k = 0 THEN 0 ELSE 10 * DigitsValue(t, k - 1) + DigitVal(t[k])

\* v-model.number: the field's text goes through parseFloat (an optional
\* sign and the digits the text starts with); a text that gives NaN is
\* stored as the string it is.
LooseToNumber(t) ==
    LET neg == t # <<>> /\ Head(t) = "-"
        body == IF neg THEN Tail(t) ELSE t
        k == LeadingDigits(body)
    IN IF k = 0 THEN Str(t)
       ELSE Num(IF neg THEN 0 - DigitsValue(body, k) ELSE DigitsValue(body, k))

\* The requests the form has sent and that have not been answered.
Pending == {r \in DOMAIN reqs : reqs[r].st # "done"}

\* The fields typed into are remembered while a mutation is pending.
Touch(field) == IF Pending # {} THEN dirty \cup {field} ELSE dirty

\* <input id="book-title" v-model="title" />
TypeTitle(t) ==
    /\ form' = [form EXCEPT !.title = t]
    /\ dirty' = Touch("title")
    /\ UNCHANGED <<storeVars, reqs, view>>

\* <input id="book-author" v-model="author" />
TypeAuthor(a) ==
    /\ form' = [form EXCEPT !.author = a]
    /\ dirty' = Touch("author")
    /\ UNCHANGED <<storeVars, reqs, view>>

\* <input id="book-year" v-model.number="year" />
TypeYear(t) ==
    /\ form' = [form EXCEPT !.year = LooseToNumber(t)]
    /\ dirty' = Touch("year")
    /\ UNCHANGED <<storeVars, reqs, view>>

\* The input built by add: { title: title.value, author: author.value,
\* year: year.value || 1990 }.
AddInput(f) ==
    [title |-> f.title, author |-> f.author, year |-> Or(f.year, Num(1990)).n]

\* <button @click="add">: add runs to its await, that is, it calls
\* addBook.executeMutation({ input }) and the request is sent.
ClickAdd ==
    /\ Len(reqs) < MaxClicks
    /\ reqs' = Append(reqs, Request("mutation", AddInput(form), Len(added)))
    /\ UNCHANGED <<storeVars, form, dirty, view>>

\* The response of a mutation arrives and add goes on after its await:
\* title.value = ''; author.value = ''; year.value = null.
MutationDone(r) ==
    /\ reqs[r].kind = "mutation"
    /\ reqs[r].st = "completed"
    /\ reqs' = [reqs EXCEPT ![r].st = "done"]
    /\ form' = BlankForm
    /\ dirty' = {}
    /\ UNCHANGED <<storeVars, view>>

UINext ==
    \/ \E t \in FormTitles : TypeTitle(t)
    \/ \E a \in FormAuthors : TypeAuthor(a)
    \/ \E t \in YearTexts : TypeYear(t)
    \/ ClickAdd
    \/ \E r \in DOMAIN reqs : ResolveMutation(r)
    \/ \E r \in DOMAIN reqs : CompleteMutation(r)
    \/ \E r \in DOMAIN reqs : MutationDone(r)

\* The mutation form, the requests it sends and the server answering them.
SpecUI == Init /\ [][UINext]_vars

\* --------------------------------------------------------------- Query.vue
\* The values of the error ref: undefined, or the error of the last result.
Errors == {NoError, "CombinedError"}

\* A template whose three blocks each have a v-if of their own.
Rendered_separateIfs(v) ==
    (IF v.fetching THEN {"loading"} ELSE {})
        \cup (IF v.error # NoError THEN {"error"} ELSE {})
        \cup (IF v.error = NoError
                 THEN {"list"} \cup (IF v.data.defined THEN {"ul"} ELSE {})
                 ELSE {})

\* The template: <div v-if="fetching"> Loading... , <div v-else-if="error">
\* Oh no... {{ error }}, <div v-else> holding <ul v-if="data">.  The value is
\* the set of the blocks that are rendered.
Rendered(v) ==
    IF v.fetching THEN {"loading"}
    ELSE IF v.error # NoError THEN {"error"}
    ELSE {"list"} \cup (IF v.data.defined THEN {"ul"} ELSE {})

\* <Book v-for="book of data.app.books" :book="book" />
RenderedBooks(v) == IF "ul" \in Rendered(v) THEN v.data.books ELSE <<>>

\* useQuery starts or repeats the query: fetching is set and the data and the
\* error of the last result stay.
QueryFetching ==
    /\ ~view.fetching
    /\ view' = [view EXCEPT !.fetching = TRUE]
    /\ UNCHANGED <<storeVars, reqs, form, dirty>>

\* A result of the query arrives: the books of the store or no data, with or
\* without an error.
QueryResult(hasData, err) ==
    /\ view' = [fetching |-> FALSE,
                data |-> IF hasData
                            THEN [defined |-> TRUE,
                                  books |-> FieldsOf(Query_books(context))]
                            ELSE NoData,
                error |-> err]
    /\ UNCHANGED <<storeVars, reqs, form, dirty>>

ViewNext ==
    \/ QueryFetching
    \/ \E hasData \in BOOLEAN : \E err \in Errors : QueryResult(hasData, err)
    \/ \E d \in ReqInputs : MutationAddBook(d)

\* The query view over a store that grows.
SpecView == Init /\ [][ViewNext]_vars

\* ------------------------------------------------------------- properties
AddOps == {"App.addBook", "Mutation.addBook"}
ReadOps == {"App.books", "Query.books", "Query.app.books"}

IsPrefix(s, t) == Len(s) <= Len(t) /\ \A i \in 1..Len(s) : s[i] = t[i]

\* C1: right after addBook(input), App.books ends with a book whose title,
\* author and year are those of the input, and the Book addBook returned is
\* that last element.
C1_AddThenList ==
    lastOp \in AddOps =>
        LET bs == App_books(Context_app(context))
            last == bs[Len(bs)]
        IN /\ Len(bs) > 0
           /\ Book_title(last) = arg.title
           /\ Book_author(last) = arg.author
           /\ Book_year(last) = arg.year
           /\ retBook = last

C1_Witness ==
    /\ lastOp = "App.addBook"
    /\ arg = [title |-> "New title", author |-> "Ursula", year |-> -1]
    /\ Len(context.books) = MaxBooks

\* C2: after the addBook calls d1..dN, App.books is the seed book followed by
\* books with the fields d1..dN, in the order of the calls.
C2_InsertionOrder ==
    FieldsOf(App_books(Context_app(context))) = <<SeedDetails>> \o added

C2_Witness ==
    /\ Len(added) = 2
    /\ added[1] # added[2]
    /\ added[2] # SeedDetails

\* C3: the store is append-only: in every step the array of books before the
\* step is a prefix of the array after it.
C3_AppendOnly == [][IsPrefix(context.books, context'.books)]_vars

C3_Witness ==
    /\ Len(context.books) = MaxBooks
    /\ lastOp = "Mutation.addBook"

\* C4: a read (App.books, Query.books, Query.app) leaves the store as it was
\* and returns its books; a read that follows a read returns an equal array.
C4_ReadsLeaveStore ==
    [][lastOp' \in ReadOps =>
          /\ context' = context
          /\ heap' = heap
          /\ retList' = context.books
          /\ (lastOp \in ReadOps => retList' = retList)]_vars

C4_Witness ==
    /\ lastOp = "App.books"
    /\ Len(retList) = 2
    /\ retList = context.books

\* C5: before any addBook the list holds exactly one book, with title
\* "My book", author "Lachlan" and year 1990.
C5_InitialSeed ==
    added = <<>> =>
        LET bs == Query_books(context)
        IN /\ Len(bs) = 1
           /\ Book_title(bs[1]) = "My book"
           /\ Book_author(bs[1]) = "Lachlan"
           /\ Book_year(bs[1]) = 1990

C5_Witness ==
    /\ added = <<>>
    /\ lastOp = "Query.books"
    /\ Len(retList) = 1

\* C6: every addBook makes the store one book longer; after the single call
\* addBook({"New title","Lachlan",1990}) on the initial state the list has
\* exactly two entries and the second has the fields of the input.
NewTitleInput == [title |-> "New title", author |-> "Lachlan", year |-> 1990]

C6_AddGrowsByOne ==
    [][/\ lastOp' \in AddOps =>
              Len(context'.books) = Len(context.books) + 1
       /\ added' = <<NewTitleInput>> =>
              /\ Len(context'.books) = 2
              /\ (BookFields(context.books[2]))' = NewTitleInput]_vars

C6_Witness ==
    /\ added = <<NewTitleInput>>
    /\ Len(context.books) = 2
    /\ lastOp \in AddOps

\* C7: addBook is total: in every state it accepts every input, a copy of a
\* stored book and any year included, and it returns a Book.
C7_AddBookTotal ==
    /\ Len(context.books) < MaxBooks =>
           \A d \in BookDetails :
               ENABLED AppAddBook(d) /\ ENABLED MutationAddBook(d)
    /\ lastOp \in AddOps => retBook # NoBook /\ retBook \in DOMAIN heap

C7_Witness ==
    /\ lastOp = "Mutation.addBook"
    /\ Len(heap) = 3
    /\ heap[2] = SeedDetails
    /\ heap[3].year = -1

\* C8: the entry points forward: Query.books and Query.app.books are both the
\* array of the context, and a Mutation.addBook(input) step is exactly the
\* step App.addBook(input) takes on that context.
C8_Forwarding ==
    [][/\ (Query_books(context))' = context'.books
       /\ (App_books(Query_app(context)))' = context'.books
       /\ lastOp' = "Mutation.addBook" =>
              /\ heap' = Append(heap, arg')
              /\ context' = [books |-> Append(context.books, Len(heap) + 1)]
              /\ retBook' = Len(heap) + 1
              /\ retList' = retList]_vars

C8_Witness ==
    /\ lastOp = "Query.app.books"
    /\ Len(retList) = 3
    /\ \E i \in 1..Len(added) : added[i].year = 9999

\* C9: a Book is immutable: the title, author and year of every constructed
\* Book read the same after every step.
C9_BookImmutable ==
    [][\A b \in DOMAIN heap :
          /\ b \in DOMAIN heap'
          /\ (Book_title(b))' = Book_title(b)
          /\ (Book_author(b))' = Book_author(b)
          /\ (Book_year(b))' = Book_year(b)]_vars

C9_Witness ==
    /\ Len(heap) = 3
    /\ heap[2] # heap[3]
    /\ heap[1] # heap[2]
    /\ lastOp \in ReadOps

\* The requests whose resolver has run.
Resolved(kind) ==
    {r \in DOMAIN reqs : reqs[r].kind = kind /\ reqs[r].st # "sent"}

\* C11: one store serves every request: the data of a list request are the
\* seed followed by the books added so far, with at least every book whose
\* addBook had returned when the request was sent, and the store itself is
\* always the one seed followed by every book added since the server started.
C11_SharedStore ==
    /\ FieldsOf(context.books) = <<SeedDetails>> \o added
    /\ \A r \in Resolved("query") :
           /\ Len(reqs[r].res) >= 1 + reqs[r].seen
           /\ reqs[r].res =
                  <<SeedDetails>> \o SubSeq(added, 1, Len(reqs[r].res) - 1)

C11_Witness ==
    \E q \in Resolved("query") : \E m \in Resolved("mutation") :
        /\ m < q
        /\ reqs[q].seen = 1
        /\ reqs[q].st = "done"
        /\ reqs[q].res = <<SeedDetails, reqs[m].input>>
        /\ reqs[m].input # SeedDetails

\* C12: under every interleaving of the requests in flight each addBook acts
\* once and whole: the store holds the seed and one book per resolved addBook
\* request, each with the fields of its input, and the data of every list
\* request are a prefix of the store's books, each with all its fields.
C12_AtomicAdds ==
    /\ Len(context.books) = 1 + Cardinality(Resolved("mutation"))
    /\ \A m \in Resolved("mutation") :
           /\ Cardinality({i \in DOMAIN context.books :
                              context.books[i] = reqs[m].book}) = 1
           /\ BookFields(reqs[m].book) = reqs[m].input
           /\ reqs[m].st \in {"completed", "done"} =>
                  reqs[m].res = <<reqs[m].input>>
    /\ \A q \in Resolved("query") :
           /\ IsPrefix(reqs[q].res, FieldsOf(context.books))
           /\ \A i \in DOMAIN reqs[q].res :
                  reqs[q].res[i] \in BookDetails

\* Two addBook requests in flight together, resolved in the other order than
\* sent, and a list request resolved between them.
C12_Witness ==
    /\ Len(reqs) = 3
    /\ reqs[1].kind = "mutation" /\ reqs[2].kind = "mutation"
    /\ reqs[2].seen = 0
    /\ reqs[3].kind = "query" /\ reqs[3].seen = 0
    /\ reqs[1].st = "done" /\ reqs[2].st = "done" /\ reqs[3].st = "done"
    /\ reqs[1].book = 3 /\ reqs[2].book = 2
    /\ Len(reqs[3].res) = 2

\* A step in which the form sends a request, and one in which the response
\* of a request reaches the form.
ClickStep == Len(reqs') = Len(reqs) + 1
DoneStep ==
    \E r \in DOMAIN reqs : reqs[r].st # "done" /\ reqs'[r].st = "done"

\* C13: a click of Add Book sends the title and the author of the form; the
\* year sent is the number in the year field whenever the field holds a
\* number, and 1990 only when it holds none.
C13_InputCarriesForm ==
    [][ClickStep =>
          LET input == reqs'[Len(reqs')].input
          IN /\ input.title = form.title
             /\ input.author = form.author
             /\ form.year.kind = "num" => input.year = form.year.n
             /\ form.year.kind # "num" => input.year = 1990]_vars

\* C14: a click sends exactly one mutation and leaves the form as it is; the
\* form is reset only when the response of a mutation arrives; and what the
\* user typed while a mutation was pending is still in the form after that
\* mutation's response.
C14_ResetAfterCompletion ==
    [][/\ ClickStep =>
              /\ form' = form
              /\ reqs' = Append(reqs, reqs'[Len(reqs')])
              /\ reqs'[Len(reqs')].st = "sent"
       /\ (form' # form /\ reqs' # reqs) => DoneStep /\ form' = BlankForm
       /\ DoneStep => \A f \in dirty : form'[f] = form[f]]_vars

\* C15: the query view renders exactly one of its three blocks: Loading
\* whenever fetching is set, whatever the error and the data; the error when
\* not fetching and an error is set; the list block otherwise, with the list
\* of books in it only when there are data.  The error and the list of books
\* are never rendered together.
C15_OneBranch ==
    LET r == Rendered(view)
    IN /\ Cardinality(r \cap {"loading", "error", "list"}) = 1
       /\ "loading" \in r <=> view.fetching
       /\ "error" \in r <=> ~view.fetching /\ view.error # NoError
       /\ "list" \in r <=> ~view.fetching /\ view.error = NoError
       /\ "ul" \in r <=> "list" \in r /\ view.data.defined
       /\ ~("error" \in r /\ "ul" \in r)
       /\ RenderedBooks(view) # <<>> => "ul" \in r /\ "error" \notin r

\* Fetching again while the last result's error and data are still held.
C15_Witness ==
    /\ view.fetching
    /\ view.error # NoError
    /\ view.data.defined
    /\ Len(view.data.books) = 2
    /\ Rendered(view) = {"loading"}

====
